---- MODULE Spec2Model ----
(***************************************************************************)
(* polars_api_compat/cudf/dataframe_object.py: the eager DataFrame and the *)
(* LazyFrame wrappers over a cudf frame.                                   *)
(*                                                                         *)
(* An engine frame (pd.DataFrame) is a record                              *)
(*   [columns, dtypes, index, data]                                        *)
(* columns : the column labels, in order (duplicates are possible)         *)
(* dtypes  : dtypes[c] is "bool" or "int64"                                *)
(* index   : the row labels, in row order                                  *)
(* data    : data[c][r] is the value of column c in row r; a bool column   *)
(*           holds 0 (False) and 1 (True)                                  *)
(* A wrapper object is [kind, dataframe, api_version, columns].            *)
(***************************************************************************)
EXTENDS Integers, Sequences, FiniteSets, TLC

\* ------------------------------------------------------------- bounds
MaxRows == 2
MaxCols == 2
MaxExprs == 2
MaxKeys == 1
MaxSortKeys == 2
MaxOtherRows == 1

Names == {"a", "b"}
Vals == {0, 1}
Dtypes == {"bool", "int64"}
ApiVersions == {"v1", "v2"}
Hows == {"inner", "left", "outer"}

\* ------------------------------------------------------------- helpers
SeqsUpTo(S, lo, hi) == UNION {[1..k -> S] : k \in lo..hi}

Range(s) == {s[i] : i \in DOMAIN s}

Min(S) == CHOOSE m \in S : \A k \in S : m <= k

RangeIndex(n) == [i \in 1..n |-> i - 1]

RECURSIVE Concat(_)
Concat(ss) == IF ss = <<>> THEN <<>> ELSE Head(ss) \o Concat(Tail(ss))

RECURSIVE BitAnd(_, _)
BitAnd(x, y) ==
    IF x = 0 \/ y = 0 THEN 0
    ELSE (IF x % 2 = 1 /\ y % 2 = 1 THEN 1 ELSE 0) + 2 * BitAnd(x \div 2, y \div 2)

\* ------------------------------------------------------------- outcomes
NoFrame == [kind |-> "none"]

Return(v) == [ok |-> TRUE, val |-> v, err |-> "", names |-> {}, count |-> 0]

Raise(e, ns, c) == [ok |-> FALSE, val |-> NoFrame, err |-> e, names |-> ns, count |-> c]

\* ------------------------------------------------------------- engine frames
NRows(df) == Len(df.index)

NCols(df) == Len(df.columns)

ColPos(df, name) == Min({c \in 1..NCols(df) : df.columns[c] = name})

\* the rows of df at the positions pos, in that order (labels travel with rows)
TakeRows(df, pos) ==
    [df EXCEPT !.index = [k \in 1..Len(pos) |-> df.index[pos[k]]],
               !.data = [c \in 1..NCols(df) |->
                            [k \in 1..Len(pos) |-> df.data[c][pos[k]]]]]

EngineFrames(maxCols, maxRows) ==
    UNION {UNION {
        {[columns |-> cols, dtypes |-> dts, index |-> RangeIndex(n), data |-> d] :
            dts \in [1..Len(cols) -> Dtypes],
            d \in [1..Len(cols) -> [1..n -> Vals]]}
        : n \in 0..maxRows}
        : cols \in SeqsUpTo(Names, 1, maxCols)}

\* ------------------------------------------------------------- construction
\* collections.Counter(columns)[col]
Counter(columns, col) == Cardinality({i \in DOMAIN columns : columns[i] = col})

\* DataFrame._validate_columns: Counter.items() iterates in first-seen order,
\* so the first name seen that occurs more than once is the one reported
DataFrame_validate_columns(columns) ==
    LET dup == {i \in DOMAIN columns : Counter(columns, columns[i]) > 1}
    IN  IF dup = {} THEN Return(NoFrame)
        ELSE Raise("DuplicateName", {columns[Min(dup)]},
                   Counter(columns, columns[Min(dup)]))

\* a validation that lets a name through twice
LazyFrame_validate_columns_lenient(columns) ==
    LET dup == {i \in DOMAIN columns : Counter(columns, columns[i]) > 2}
    IN  IF dup = {} THEN Return(NoFrame)
        ELSE Raise("DuplicateName", {columns[Min(dup)]},
                   Counter(columns, columns[Min(dup)]))

\* LazyFrame._validate_columns
LazyFrame_validate_columns(columns) ==
    LET dup == {i \in DOMAIN columns : Counter(columns, columns[i]) > 1}
    IN  IF dup = {} THEN Return(NoFrame)
        ELSE Raise("DuplicateName", {columns[Min(dup)]},
                   Counter(columns, columns[Min(dup)]))

\* DataFrame.__init__
DataFrame_init(dataframe, api_version) ==
    LET v == DataFrame_validate_columns(dataframe.columns)
    IN  IF ~v.ok THEN v
        ELSE Return([kind |-> "DataFrame", dataframe |-> dataframe,
                     api_version |-> api_version, columns |-> dataframe.columns])

\* LazyFrame.__init__
LazyFrame_init(dataframe, api_version) ==
    LET v == LazyFrame_validate_columns(dataframe.columns)
    IN  IF ~v.ok THEN v
        ELSE Return([kind |-> "LazyFrame", dataframe |-> dataframe,
                     api_version |-> api_version, columns |-> dataframe.columns])

\* LazyFrame._from_dataframe
LazyFrame_from_dataframe(self, df) == LazyFrame_init(df, self.api_version)

\* LazyFrame._validate_booleanness: every dtype of the wrapped frame is bool
\* (no method of this file calls it)
LazyFrame_validate_booleanness(self) ==
    IF \A c \in 1..NCols(self.dataframe) : self.dataframe.dtypes[c] = "bool"
    THEN Return(NoFrame)
    ELSE Raise("TypeError", {}, 0)

\* ------------------------------------------------------------- collaborators
\* An expression is [col, alias]: column `col` of the frame, named `alias`
\* (by .alias or by keyword binding).  A Series is [name, dtype, index, values].
Exprs == [col : Names, alias : Names]

SeriesOf(df, e) ==
    [name |-> e.alias, dtype |-> df.dtypes[ColPos(df, e.col)],
     index |-> df.index, values |-> df.data[ColPos(df, e.col)]]

\* evaluate_into_exprs: one Series per expression, in the order given, each as
\* long as the frame and on the frame's index; a reference to an absent
\* column is the engine's NotFound
evaluate_into_exprs(self, exprs) ==
    LET missing == {i \in DOMAIN exprs : exprs[i].col \notin Range(self.dataframe.columns)}
    IN  IF missing # {} THEN Raise("NotFound", {exprs[Min(missing)].col}, 0)
        ELSE Return([i \in DOMAIN exprs |-> SeriesOf(self.dataframe, exprs[i])])

RECURSIVE AndReduce(_)
AndReduce(ss) ==
    IF Len(ss) = 1 THEN ss[1]
    ELSE LET l == AndReduce(SubSeq(ss, 1, Len(ss) - 1))
             r == ss[Len(ss)]
         IN  [l EXCEPT !.dtype = IF l.dtype = "bool" /\ r.dtype = "bool"
                                 THEN "bool" ELSE "int64",
                       !.values = [k \in DOMAIN l.values |->
                                      BitAnd(l.values[k], r.values[k])]]

\* Namespace.all_horizontal(*predicates).call(self)[0]: the predicates ANDed
\* row by row into a single Series
all_horizontal(self, predicates) ==
    LET ev == evaluate_into_exprs(self, predicates)
    IN  IF ~ev.ok THEN ev ELSE Return(AndReduce(ev.val))

\* validate_dataframe_comparand: the mask must line up with the frame's rows
validate_dataframe_comparand(self, mask) ==
    IF Len(mask.values) = NRows(self.dataframe) /\ mask.index = self.dataframe.index
    THEN Return(mask)
    ELSE Raise("ValueError", {}, 0)

\* flatten_str: bare strings and iterables of strings, flattened in order,
\* duplicates kept.  An argument is [isstr, str, list].
Str(n) == [isstr |-> TRUE, str |-> n, list |-> <<>>]

List(l) == [isstr |-> FALSE, str |-> "", list |-> l]

flatten_str(keys) ==
    Concat([i \in DOMAIN keys |->
               IF keys[i].isstr THEN <<keys[i].str>> ELSE keys[i].list])

\* ------------------------------------------------------------- engine calls
RECURSIVE SeqOfSet(_)
SeqOfSet(S) == IF S = {} THEN <<>> ELSE <<Min(S)>> \o SeqOfSet(S \ {Min(S)})

Without(seq, c) == [k \in 1..(Len(seq) - 1) |-> IF k < c THEN seq[k] ELSE seq[k + 1]]

\* a setitem that re-inserts an existing label as the last column
SetItem_moves_to_end(df, s) ==
    IF s.name \in Range(df.columns)
    THEN [df EXCEPT !.columns = Append(Without(@, ColPos(df, s.name)), s.name),
                    !.dtypes = Append(Without(@, ColPos(df, s.name)), s.dtype),
                    !.data = Append(Without(@, ColPos(df, s.name)), s.values)]
    ELSE [df EXCEPT !.columns = Append(@, s.name),
                    !.dtypes = Append(@, s.dtype),
                    !.data = Append(@, s.values)]

\* df[name] = series: an existing label keeps its position, a new one is
\* appended
SetItem(df, s) ==
    IF s.name \in Range(df.columns)
    THEN [df EXCEPT !.dtypes[ColPos(df, s.name)] = s.dtype,
                    !.data[ColPos(df, s.name)] = s.values]
    ELSE [df EXCEPT !.columns = Append(@, s.name),
                    !.dtypes = Append(@, s.dtype),
                    !.data = Append(@, s.values)]

\* {series.name: series.series for series in new_series}: a dict keeps the
\* position of a key's first insertion and the value of its last
RECURSIVE DictOf(_)
DictOf(new_series) ==
    IF new_series = <<>> THEN <<>>
    ELSE LET d == DictOf(SubSeq(new_series, 1, Len(new_series) - 1))
             s == new_series[Len(new_series)]
             at == {k \in DOMAIN d : d[k].name = s.name}
         IN  IF at = {} THEN Append(d, s) ELSE [d EXCEPT ![Min(at)] = s]

\* pd.concat(dict, axis=1, copy=False): the dict's values side by side under
\* its keys; nothing to concatenate is an error
pd_concat(dict) ==
    IF dict = <<>> THEN Raise("ValueError", {}, 0)
    ELSE Return([columns |-> [k \in DOMAIN dict |-> dict[k].name],
                 dtypes |-> [k \in DOMAIN dict |-> dict[k].dtype],
                 index |-> dict[1].index,
                 data |-> [k \in DOMAIN dict |-> dict[k].values]])

\* DataFrame.assign(**dict): a copy of df with each item set in turn
RECURSIVE pd_assign(_, _)
pd_assign(df, dict) ==
    IF dict = <<>> THEN df
    ELSE SetItem(pd_assign(df, SubSeq(dict, 1, Len(dict) - 1)), dict[Len(dict)])

\* DataFrame.loc[mask]: a boolean mask keeps the rows where it is true; any
\* other mask is a list of row labels to look up
pd_loc(df, mask) ==
    IF mask.dtype = "bool"
    THEN Return(TakeRows(df, SeqOfSet({r \in 1..NRows(df) : mask.values[r] = 1})))
    ELSE IF \E k \in DOMAIN mask.values : mask.values[k] \notin Range(df.index)
    THEN Raise("KeyError", {}, 0)
    ELSE Return(TakeRows(df,
            Concat([k \in DOMAIN mask.values |->
                       SeqOfSet({r \in 1..NRows(df) : df.index[r] = mask.values[k]})])))

\* `ascending` is a flag or a list: [isbool, flag, seq]
Flag(b) == [isbool |-> TRUE, flag |-> b, seq |-> <<>>]

Flags(bs) == [isbool |-> FALSE, flag |-> FALSE, seq |-> bs]

AscAt(ascending, i) == IF ascending.isbool THEN ascending.flag ELSE ascending.seq[i]

\* row r1 sorts strictly before row r2 under the keys `by`
Before(df, by, ascending, r1, r2) ==
    \E i \in DOMAIN by :
        /\ \A j \in 1..(i - 1) :
              df.data[ColPos(df, by[j])][r1] = df.data[ColPos(df, by[j])][r2]
        /\ IF AscAt(ascending, i)
           THEN df.data[ColPos(df, by[i])][r1] < df.data[ColPos(df, by[i])][r2]
           ELSE df.data[ColPos(df, by[i])][r1] > df.data[ColPos(df, by[i])][r2]

Perms(n) == {p \in [1..n -> 1..n] : \A i, j \in 1..n : p[i] = p[j] => i = j}

sort_values_ok(df, by, ascending) ==
    /\ Range(by) \subseteq Range(df.columns)
    /\ ascending.isbool \/ Len(ascending.seq) = Len(by)

\* the row orders sort_values may produce: it is called with the default
\* kind ("quicksort"), which leaves the order of rows with equal keys to the
\* engine
sort_orders(df, by, ascending) ==
    IF ~sort_values_ok(df, by, ascending) THEN {RangeIndex(0)}
    ELSE {p \in Perms(NRows(df)) :
             \A i, j \in 1..NRows(df) :
                 i < j => ~Before(df, by, ascending, p[j], p[i])}

\* DataFrame.sort_values(by, ascending=ascending); `order` is the engine's
\* choice among sort_orders
pd_sort_values(df, by, ascending, order) ==
    IF ~(Range(by) \subseteq Range(df.columns)) THEN Raise("KeyError", {}, 0)
    ELSE IF ~ascending.isbool /\ Len(ascending.seq) # Len(by)
    THEN Raise("ValueError", {}, 0)
    ELSE Return(TakeRows(df, order))

\* DataFrame.merge(right, left_on=, right_on=, how="inner"): a right key
\* column named like its left key is merged into it; any other label the two
\* sides share is suffixed _x on the left and _y on the right; the row labels
\* are renumbered
pd_merge(left, right, left_on, right_on) ==
    IF Len(left_on) # Len(right_on) THEN Raise("ValueError", {}, 0)
    ELSE IF ~(Range(left_on) \subseteq Range(left.columns))
            \/ ~(Range(right_on) \subseteq Range(right.columns))
    THEN Raise("KeyError", {}, 0)
    ELSE
    LET same == {left_on[k] : k \in {k \in DOMAIN left_on : left_on[k] = right_on[k]}}
        rkeep == SeqOfSet({c \in 1..NCols(right) : right.columns[c] \notin same})
        shared == Range(left.columns) \cap {right.columns[rkeep[k]] : k \in DOMAIN rkeep}
        match(i, j) == \A k \in DOMAIN left_on :
                          left.data[ColPos(left, left_on[k])][i]
                              = right.data[ColPos(right, right_on[k])][j]
        pairs == Concat([i \in 1..NRows(left) |->
                    LET js == SeqOfSet({j \in 1..NRows(right) : match(i, j)})
                    IN  [k \in DOMAIN js |-> <<i, js[k]>>]])
        ldtype(c) == IF left.columns[c] \in same
                        /\ right.dtypes[ColPos(right, left.columns[c])] # left.dtypes[c]
                     THEN "int64" ELSE left.dtypes[c]
    IN  Return([columns |->
                    [c \in 1..NCols(left) |->
                        IF left.columns[c] \in shared
                        THEN left.columns[c] \o "_x" ELSE left.columns[c]]
                    \o [k \in DOMAIN rkeep |->
                        IF right.columns[rkeep[k]] \in shared
                        THEN right.columns[rkeep[k]] \o "_y"
                        ELSE right.columns[rkeep[k]]],
                dtypes |-> [c \in 1..NCols(left) |-> ldtype(c)]
                    \o [k \in DOMAIN rkeep |-> right.dtypes[rkeep[k]]],
                index |-> RangeIndex(Len(pairs)),
                data |-> [c \in 1..NCols(left) |->
                              [p \in DOMAIN pairs |-> left.data[c][pairs[p][1]]]]
                    \o [k \in DOMAIN rkeep |->
                              [p \in DOMAIN pairs |-> right.data[rkeep[k]][pairs[p][2]]]]])

\* ------------------------------------------------------------- methods
\* What a call leaves behind: the receiver and the other operand as they are
\* after it, its outcome (a returned frame or a raised error), and the engine
\* calls it made.
Done(self, other, out, calls) ==
    [self |-> self, other |-> other, out |-> out, calls |-> calls]

\* LazyFrame.select
LazyFrame_select(self, exprs) ==
    LET new_series == evaluate_into_exprs(self, exprs)
    IN  IF ~new_series.ok THEN Done(self, NoFrame, new_series, <<>>)
        ELSE LET df == pd_concat(DictOf(new_series.val))
             IN  IF ~df.ok THEN Done(self, NoFrame, df, <<"concat">>)
                 ELSE Done(self, NoFrame, LazyFrame_from_dataframe(self, df.val),
                           <<"concat">>)

\* LazyFrame.filter
LazyFrame_filter(self, predicates) ==
    LET mask == all_horizontal(self, predicates)
    IN  IF ~mask.ok THEN Done(self, NoFrame, mask, <<>>)
        ELSE LET _mask == validate_dataframe_comparand(self, mask.val)
             IN  IF ~_mask.ok THEN Done(self, NoFrame, _mask, <<>>)
                 ELSE LET df == pd_loc(self.dataframe, _mask.val)
                      IN  IF ~df.ok THEN Done(self, NoFrame, df, <<"loc">>)
                          ELSE Done(self, NoFrame,
                                    LazyFrame_from_dataframe(self, df.val), <<"loc">>)

\* a with_columns that assigns into the frame self wraps
LazyFrame_with_columns_in_place(self, exprs) ==
    LET new_series == evaluate_into_exprs(self, exprs)
    IN  IF ~new_series.ok THEN Done(self, NoFrame, new_series, <<>>)
        ELSE LET df == pd_assign(self.dataframe, DictOf(new_series.val))
             IN  Done([self EXCEPT !.dataframe = df], NoFrame,
                      LazyFrame_from_dataframe(self, df), <<"assign">>)

\* LazyFrame.with_columns
LazyFrame_with_columns(self, exprs) ==
    LET new_series == evaluate_into_exprs(self, exprs)
    IN  IF ~new_series.ok THEN Done(self, NoFrame, new_series, <<>>)
        ELSE LET df == pd_assign(self.dataframe, DictOf(new_series.val))
             IN  Done(self, NoFrame, LazyFrame_from_dataframe(self, df), <<"assign">>)

\* LazyFrame.sort
LazyFrame_sort(self, keys, descending, order) ==
    LET flat_keys == IF flatten_str(keys) = <<>> THEN self.dataframe.columns
                     ELSE flatten_str(keys)
        ascending == IF descending.isbool THEN Flag(~descending.flag)
                     ELSE Flags([i \in DOMAIN descending.seq |-> ~descending.seq[i]])
        df == pd_sort_values(self.dataframe, flat_keys, ascending, order)
    IN  IF ~df.ok THEN Done(self, NoFrame, df, <<"sort_values">>)
        ELSE Done(self, NoFrame, LazyFrame_from_dataframe(self, df.val),
                  <<"sort_values">>)

\* the row orders the engine may choose from in LazyFrame.sort
LazyFrame_sort_orders(self, keys, descending) ==
    sort_orders(self.dataframe,
                IF flatten_str(keys) = <<>> THEN self.dataframe.columns
                ELSE flatten_str(keys),
                IF descending.isbool THEN Flag(~descending.flag)
                ELSE Flags([i \in DOMAIN descending.seq |-> ~descending.seq[i]]))

\* isinstance(x, str): [x]
AsList(on) == IF on.isstr THEN <<on.str>> ELSE on.list

\* an overlap that leaves the right keys in
join_overlap_ignores_right_on(self, other, left_on, right_on) ==
    (Range(self.columns) \ Range(AsList(left_on))) \cap Range(other.columns)

\* (set(self.columns) - set(left_on)).intersection(set(other.columns) - set(right_on))
join_overlap(self, other, left_on, right_on) ==
    (Range(self.columns) \ Range(AsList(left_on)))
        \cap (Range(other.columns) \ Range(AsList(right_on)))

\* a how check that lets every how of the signature through
join_supported_any(how) == how \in {"inner", "left", "outer"}

\* how not in ["inner"]
join_supported(how) == how \in {"inner"}

\* LazyFrame.join.  The three ValueErrors are told apart by what they report:
\* the unsupported how, the overlapping columns, the engine's own.
LazyFrame_join(self, other, how, left_on, right_on) ==
    IF ~join_supported(how) THEN Done(self, other, Raise("NotSupported", {}, 0), <<>>)
    ELSE LET overlap == join_overlap(self, other, left_on, right_on)
         IN  IF overlap # {}
             THEN Done(self, other, Raise("NameCollision", overlap, 0), <<>>)
             ELSE LET df == pd_merge(self.dataframe, other.dataframe,
                                     AsList(left_on), AsList(right_on))
                  IN  IF ~df.ok THEN Done(self, other, df, <<"merge">>)
                      ELSE Done(self, other, LazyFrame_from_dataframe(self, df.val),
                                <<"merge">>)

\* a collect that does not pass api_version on
LazyFrame_collect_drops_version(self) == DataFrame_init(self.dataframe, "")

\* LazyFrame.collect
LazyFrame_collect(self) == DataFrame_init(self.dataframe, self.api_version)

\* DataFrame.lazy
DataFrame_lazy(self) == LazyFrame_init(self.dataframe, self.api_version)

\* self.lazy().<op>(...).collect(): the lazy wrapper holds the very engine
\* frame self holds, so self sees whatever the lazy call did to it
ThenCollect(self, other, r) ==
    Done([self EXCEPT !.dataframe = r.self.dataframe],
         IF other = NoFrame THEN NoFrame
         ELSE [other EXCEPT !.dataframe = r.other.dataframe],
         IF r.out.ok THEN LazyFrame_collect(r.out.val) ELSE r.out,
         r.calls)

\* DataFrame.select
DataFrame_select(self, exprs) ==
    LET lz == DataFrame_lazy(self)
    IN  IF ~lz.ok THEN Done(self, NoFrame, lz, <<>>)
        ELSE ThenCollect(self, NoFrame, LazyFrame_select(lz.val, exprs))

\* DataFrame.filter
DataFrame_filter(self, predicates) ==
    LET lz == DataFrame_lazy(self)
    IN  IF ~lz.ok THEN Done(self, NoFrame, lz, <<>>)
        ELSE ThenCollect(self, NoFrame, LazyFrame_filter(lz.val, predicates))

\* DataFrame.with_columns
DataFrame_with_columns(self, exprs) ==
    LET lz == DataFrame_lazy(self)
    IN  IF ~lz.ok THEN Done(self, NoFrame, lz, <<>>)
        ELSE ThenCollect(self, NoFrame, LazyFrame_with_columns(lz.val, exprs))

\* DataFrame.sort
DataFrame_sort(self, keys, descending, order) ==
    LET lz == DataFrame_lazy(self)
    IN  IF ~lz.ok THEN Done(self, NoFrame, lz, <<>>)
        ELSE ThenCollect(self, NoFrame, LazyFrame_sort(lz.val, keys, descending, order))

\* DataFrame.join
DataFrame_join(self, other, how, left_on, right_on) ==
    LET lz == DataFrame_lazy(self)
        olz == DataFrame_lazy(other)
    IN  IF ~lz.ok THEN Done(self, other, lz, <<>>)
        ELSE IF ~olz.ok THEN Done(self, other, olz, <<>>)
        ELSE ThenCollect(self, other,
                         LazyFrame_join(lz.val, olz.val, how, left_on, right_on))

\* ------------------------------------------------------------- state
VARIABLES
    cur,    \* the frame the caller holds: the receiver of the next call
    last    \* the last call: receiver and operand before and after, arguments,
            \* outcome

vars == <<cur, last>>

Unique(columns) == \A i, j \in DOMAIN columns : columns[i] = columns[j] => i = j

\* the inputs calls are made with
ExprArgs == SeqsUpTo(Exprs, 0, MaxExprs)

PredicateArgs == SeqsUpTo({[col |-> n, alias |-> n] : n \in Names}, 1, MaxExprs)

SortKeyArgs ==
    {<<>>} \cup {<<Str(n)>> : n \in Names}
           \cup {<<List(l)>> : l \in SeqsUpTo(Names, MaxSortKeys, MaxSortKeys)}

DescendingArgs ==
    {Flag(b) : b \in BOOLEAN} \cup {Flags(bs) : bs \in SeqsUpTo(BOOLEAN, 1, MaxSortKeys)}

OnArgs == {Str(n) : n \in Names} \cup {List(l) : l \in SeqsUpTo(Names, 1, MaxKeys)}

OtherFrames ==
    {df \in EngineFrames(MaxCols, MaxOtherRows) :
        /\ Unique(df.columns)
        /\ NRows(df) >= 1
        /\ \A c \in 1..NCols(df) : df.dtypes[c] = "int64"}

NoArgs ==
    [exprs |-> <<>>, keys |-> <<>>, descending |-> Flag(FALSE), order |-> <<>>,
     how |-> "", left_on |-> Str(""), right_on |-> Str(""),
     dataframe |-> NoFrame, api_version |-> ""]

\* a frame the caller goes on with (the model follows frames up to its bounds)
Within(f) == NRows(f.dataframe) <= MaxRows /\ NCols(f.dataframe) <= MaxCols

Idle ==
    [op |-> "none", kind |-> "none", self |-> NoFrame, other |-> NoFrame,
     args |-> NoArgs, after |-> NoFrame, otherAfter |-> NoFrame,
     out |-> Return(NoFrame), calls |-> <<>>]

\* a call on cur: the call is recorded, cur is the receiver as the call left it
Record(op, self, other, args, r) ==
    /\ last' = [op |-> op, kind |-> self.kind, self |-> self, other |-> other,
                args |-> args, after |-> r.self, otherAfter |-> r.other,
                out |-> r.out, calls |-> r.calls]
    /\ cur' = r.self

\* nothing is constructed yet
Init ==
    /\ cur = NoFrame
    /\ last = Idle

\* DataFrame(dataframe, api_version=...) on any engine frame
ConstructDataFrame ==
    /\ cur = NoFrame /\ last.op = "none"
    /\ \E df \in EngineFrames(MaxCols, MaxRows), v \in ApiVersions :
        /\ last' = [Idle EXCEPT !.op = "construct", !.kind = "DataFrame",
                                !.args = [NoArgs EXCEPT !.dataframe = df,
                                                        !.api_version = v],
                                !.out = DataFrame_init(df, v)]
        /\ cur' = cur

\* LazyFrame(dataframe, api_version=...) on any engine frame
ConstructLazyFrame ==
    /\ cur = NoFrame /\ last.op = "none"
    /\ \E df \in EngineFrames(MaxCols, MaxRows), v \in ApiVersions :
        /\ last' = [Idle EXCEPT !.op = "construct", !.kind = "LazyFrame",
                                !.args = [NoArgs EXCEPT !.dataframe = df,
                                                        !.api_version = v],
                                !.out = LazyFrame_init(df, v)]
        /\ cur' = cur

\* the caller goes on with the frame the call returned, or with the receiver
\* when the call raised or returned a frame beyond the bounds
Continue ==
    /\ last.op # "none"
    /\ cur' = IF last.out.ok /\ Within(last.out.val) THEN last.out.val ELSE cur
    /\ last' = Idle

Callable(kind) == last.op = "none" /\ cur # NoFrame /\ cur.kind = kind

LazySelect ==
    /\ Callable("LazyFrame")
    /\ \E exprs \in ExprArgs :
          Record("select", cur, NoFrame, [NoArgs EXCEPT !.exprs = exprs],
                 LazyFrame_select(cur, exprs))

LazyFilter ==
    /\ Callable("LazyFrame")
    /\ \E predicates \in PredicateArgs :
          Record("filter", cur, NoFrame, [NoArgs EXCEPT !.exprs = predicates],
                 LazyFrame_filter(cur, predicates))

LazyWithColumns ==
    /\ Callable("LazyFrame")
    /\ \E exprs \in ExprArgs :
          Record("with_columns", cur, NoFrame, [NoArgs EXCEPT !.exprs = exprs],
                 LazyFrame_with_columns(cur, exprs))

LazySort ==
    /\ Callable("LazyFrame")
    /\ \E keys \in SortKeyArgs, descending \in DescendingArgs :
          \E order \in LazyFrame_sort_orders(cur, keys, descending) :
              Record("sort", cur, NoFrame,
                     [NoArgs EXCEPT !.keys = keys, !.descending = descending,
                                    !.order = order],
                     LazyFrame_sort(cur, keys, descending, order))

LazyJoin ==
    /\ Callable("LazyFrame")
    /\ \E df \in OtherFrames, how \in Hows, left_on \in OnArgs, right_on \in OnArgs :
          LET other == LazyFrame_init(df, cur.api_version).val
          IN  Record("join", cur, other,
                     [NoArgs EXCEPT !.how = how, !.left_on = left_on,
                                    !.right_on = right_on],
                     LazyFrame_join(cur, other, how, left_on, right_on))

LazyCollect ==
    /\ Callable("LazyFrame")
    /\ Record("collect", cur, NoFrame, NoArgs,
              Done(cur, NoFrame, LazyFrame_collect(cur), <<>>))

EagerSelect ==
    /\ Callable("DataFrame")
    /\ \E exprs \in ExprArgs :
          Record("select", cur, NoFrame, [NoArgs EXCEPT !.exprs = exprs],
                 DataFrame_select(cur, exprs))

EagerFilter ==
    /\ Callable("DataFrame")
    /\ \E predicates \in PredicateArgs :
          Record("filter", cur, NoFrame, [NoArgs EXCEPT !.exprs = predicates],
                 DataFrame_filter(cur, predicates))

EagerWithColumns ==
    /\ Callable("DataFrame")
    /\ \E exprs \in ExprArgs :
          Record("with_columns", cur, NoFrame, [NoArgs EXCEPT !.exprs = exprs],
                 DataFrame_with_columns(cur, exprs))

EagerSort ==
    /\ Callable("DataFrame")
    /\ \E keys \in SortKeyArgs, descending \in DescendingArgs :
          \E order \in LazyFrame_sort_orders(cur, keys, descending) :
              Record("sort", cur, NoFrame,
                     [NoArgs EXCEPT !.keys = keys, !.descending = descending,
                                    !.order = order],
                     DataFrame_sort(cur, keys, descending, order))

EagerJoin ==
    /\ Callable("DataFrame")
    /\ \E df \in OtherFrames, how \in Hows, left_on \in OnArgs, right_on \in OnArgs :
          LET other == DataFrame_init(df, cur.api_version).val
          IN  Record("join", cur, other,
                     [NoArgs EXCEPT !.how = how, !.left_on = left_on,
                                    !.right_on = right_on],
                     DataFrame_join(cur, other, how, left_on, right_on))

EagerLazy ==
    /\ Callable("DataFrame")
    /\ Record("lazy", cur, NoFrame, NoArgs,
              Done(cur, NoFrame, DataFrame_lazy(cur), <<>>))

Next ==
    \/ ConstructDataFrame
    \/ ConstructLazyFrame
    \/ Continue
    \/ LazySelect
    \/ LazyFilter
    \/ LazyWithColumns
    \/ LazySort
    \/ LazyJoin
    \/ LazyCollect
    \/ EagerSelect
    \/ EagerFilter
    \/ EagerWithColumns
    \/ EagerSort
    \/ EagerJoin
    \/ EagerLazy

Spec == Init /\ [][Next]_vars

TypeOK ==
    /\ last.op \in {"none", "construct", "select", "filter", "with_columns", "sort",
                    "join", "lazy", "collect"}
    /\ cur # NoFrame => cur.kind \in {"DataFrame", "LazyFrame"}

\* ------------------------------------------------------------- properties
Called(op, kind) == last.op = op /\ last.kind = kind

Returned(op, kind) == Called(op, kind) /\ last.out.ok

Max(S) == CHOOSE m \in S : \A k \in S : m >= k

\* C1: constructing a DataFrame or a LazyFrame from an engine frame raises
\* DuplicateName when a column name occurs more than once and succeeds,
\* wrapping that frame, when the names are unique; every frame held or
\* returned after any sequence of calls has pairwise distinct column names.
C1_UniqueColumnNames ==
    /\ last.op = "construct" =>
          /\ last.out.ok <=> Unique(last.args.dataframe.columns)
          /\ ~last.out.ok =>
                /\ last.out.err = "DuplicateName"
                /\ \E n \in last.out.names :
                      /\ Counter(last.args.dataframe.columns, n) = last.out.count
                      /\ last.out.count > 1
          /\ last.out.ok =>
                /\ last.out.val.kind = last.kind
                /\ last.out.val.dataframe = last.args.dataframe
                /\ last.out.val.api_version = last.args.api_version
    /\ cur # NoFrame =>
          Unique(cur.dataframe.columns) /\ cur.columns = cur.dataframe.columns
    /\ last.op # "none" /\ last.out.ok =>
          /\ Unique(last.out.val.dataframe.columns)
          /\ last.out.val.columns = last.out.val.dataframe.columns

C1_Witness ==
    /\ Called("construct", "LazyFrame")
    /\ ~Unique(last.args.dataframe.columns)
    /\ last.out.err = "DuplicateName"

\* C2: LazyFrame.select raises DuplicateName whenever two of the evaluated
\* Series share a name; it returns no frame in that case.
C2_SelectRejectsDuplicateNames ==
    Called("select", "LazyFrame")
        /\ evaluate_into_exprs(last.self, last.args.exprs).ok
        /\ (\E i, j \in DOMAIN last.args.exprs :
               i # j /\ last.args.exprs[i].alias = last.args.exprs[j].alias)
    => ~last.out.ok /\ last.out.err = "DuplicateName"

\* C3: LazyFrame.with_columns upserts by name.  A column whose name is the
\* name of an evaluated Series holds that Series (the last one of that name)
\* at its old position; every other column keeps position, dtype and values;
\* the new names follow the old columns in the order they were first
\* evaluated; the row labels, and so the row count and order, are the source's.
C3_WithColumnsUpserts ==
    Returned("with_columns", "LazyFrame") =>
        LET old == last.self.dataframe
            new == last.out.val.dataframe
            ser == evaluate_into_exprs(last.self, last.args.exprs).val
            lastOf(n) == ser[Max({i \in DOMAIN ser : ser[i].name = n})]
            fresh == SeqOfSet({i \in DOMAIN ser :
                        /\ ser[i].name \notin Range(old.columns)
                        /\ \A j \in 1..(i - 1) : ser[j].name # ser[i].name})
        IN  /\ new.columns = old.columns \o [k \in DOMAIN fresh |-> ser[fresh[k]].name]
            /\ \A c \in 1..NCols(old) :
                  IF \E i \in DOMAIN ser : ser[i].name = old.columns[c]
                  THEN /\ new.data[c] = lastOf(old.columns[c]).values
                       /\ new.dtypes[c] = lastOf(old.columns[c]).dtype
                  ELSE /\ new.data[c] = old.data[c]
                       /\ new.dtypes[c] = old.dtypes[c]
            /\ \A k \in DOMAIN fresh :
                  /\ new.data[NCols(old) + k] = lastOf(ser[fresh[k]].name).values
                  /\ new.dtypes[NCols(old) + k] = lastOf(ser[fresh[k]].name).dtype
            /\ new.index = old.index

\* an existing column is overwritten in place while another column stays
C3_Witness ==
    /\ Returned("with_columns", "LazyFrame")
    /\ NCols(last.self.dataframe) = 2
    /\ Len(last.args.exprs) = 1
    /\ last.args.exprs[1].alias = last.self.columns[1]
    /\ last.args.exprs[1].col = last.self.columns[2]
    /\ last.out.val.dataframe.data[1] # last.self.dataframe.data[1]

\* C4: LazyFrame.filter raises TypeError whenever the combined mask is not
\* boolean-typed, before any row is selected; it returns a frame only for a
\* boolean mask.
C4_FilterRejectsNonBooleanMask ==
    Called("filter", "LazyFrame")
        /\ all_horizontal(last.self, last.args.exprs).ok
        /\ all_horizontal(last.self, last.args.exprs).val.dtype # "bool"
    => ~last.out.ok /\ last.out.err = "TypeError" /\ last.calls = <<>>

\* C5: for how="inner", LazyFrame.join raises NameCollision exactly when a
\* column outside left_on (a bare string read as a one-element list) of self
\* is also a column outside right_on of other; the error names every such
\* column and the merge is not executed.
C5_InnerJoinOverlap ==
    Called("join", "LazyFrame") /\ last.args.how = "inner" =>
        LET lkeys == IF last.args.left_on.isstr THEN {last.args.left_on.str}
                     ELSE Range(last.args.left_on.list)
            rkeys == IF last.args.right_on.isstr THEN {last.args.right_on.str}
                     ELSE Range(last.args.right_on.list)
            overlap == {n \in Range(last.self.columns) :
                           n \notin lkeys /\ n \in Range(last.other.columns)
                                          /\ n \notin rkeys}
        IN  /\ last.out.err = "NameCollision" <=> overlap # {}
            /\ overlap # {} =>
                  ~last.out.ok /\ last.out.names = overlap /\ last.calls = <<>>
            /\ overlap = {} => last.calls = <<"merge">>

\* a column of other that is not its key collides with a non-key column of self
C5_Witness ==
    /\ Called("join", "LazyFrame") /\ last.args.how = "inner"
    /\ last.out.err = "NameCollision"
    /\ last.args.left_on.isstr /\ ~last.args.right_on.isstr
    /\ last.out.names = {"b"}

\* C6: LazyFrame.join with how other than "inner" raises NotSupported for
\* every pair of frames and every left_on/right_on, before the overlap check
\* and before the merge.
C6_OnlyInnerJoin ==
    Called("join", "LazyFrame") /\ last.args.how # "inner" =>
        ~last.out.ok /\ last.out.err = "NotSupported" /\ last.calls = <<>>

\* an unsupported how together with colliding columns
C6_Witness ==
    /\ Called("join", "LazyFrame") /\ last.args.how = "left"
    /\ join_overlap(last.self, last.other, last.args.left_on, last.args.right_on) # {}
    /\ last.out.err = "NotSupported"

\* C7: whenever LazyFrame.join returns a frame, a column name the two inputs
\* share is a join key named alike on both sides, and no column of the result
\* carries a name that neither input has (nothing is suffixed).
C7_JoinNeverSuffixes ==
    Returned("join", "LazyFrame") =>
        /\ \A n \in Range(last.self.columns) \cap Range(last.other.columns) :
              \E k \in DOMAIN AsList(last.args.left_on) :
                  /\ k \in DOMAIN AsList(last.args.right_on)
                  /\ AsList(last.args.left_on)[k] = n
                  /\ AsList(last.args.right_on)[k] = n
        /\ Range(last.out.val.columns)
              \subseteq Range(last.self.columns) \cup Range(last.other.columns)

\* the lazy wrapper and the eager wrapper of one engine frame
AsLazy(f) == [f EXCEPT !.kind = "LazyFrame"]

AsEager(f) == [f EXCEPT !.kind = "DataFrame"]

Collected(out) == IF out.ok THEN Return(AsEager(out.val)) ELSE out

\* C8: each of DataFrame.select, filter, with_columns, sort and join yields
\* what the LazyFrame method yields on a LazyFrame of the same engine frame
\* and api_version, as a DataFrame: the same columns, rows and api_version,
\* or the same error; lazy() and collect() wrap the receiver's engine frame
\* unchanged, so df.lazy().collect() is df.
C8_EagerIsLazyThenCollect ==
    /\ Called("select", "DataFrame") =>
          last.out = Collected(LazyFrame_select(AsLazy(last.self), last.args.exprs).out)
    /\ Called("filter", "DataFrame") =>
          last.out = Collected(LazyFrame_filter(AsLazy(last.self), last.args.exprs).out)
    /\ Called("with_columns", "DataFrame") =>
          last.out = Collected(LazyFrame_with_columns(AsLazy(last.self),
                                                      last.args.exprs).out)
    /\ Called("sort", "DataFrame") =>
          last.out = Collected(LazyFrame_sort(AsLazy(last.self), last.args.keys,
                                              last.args.descending, last.args.order).out)
    /\ Called("join", "DataFrame") =>
          last.out = Collected(LazyFrame_join(AsLazy(last.self), AsLazy(last.other),
                                              last.args.how, last.args.left_on,
                                              last.args.right_on).out)
    /\ Called("lazy", "DataFrame") => last.out = Return(AsLazy(last.self))
    /\ Called("collect", "LazyFrame") => last.out = Return(AsEager(last.self))
    /\ cur # NoFrame /\ cur.kind = "DataFrame" =>
          /\ DataFrame_lazy(cur).ok
          /\ LazyFrame_collect(DataFrame_lazy(cur).val) = Return(cur)

\* an eager filter that drops a row and returns a DataFrame
C8_Witness ==
    /\ Returned("filter", "DataFrame")
    /\ last.out.val.kind = "DataFrame"
    /\ last.out.val.api_version = "v2"
    /\ NRows(last.out.val.dataframe) = 1
    /\ NRows(last.self.dataframe) = 2

C10_FramesImmutable ==
    last.op \notin {"none", "construct"} =>
        /\ last.after = last.self
        /\ cur = last.self
        /\ last.otherAfter = last.other
        /\ last.out.ok => last.out.val.api_version = last.self.api_version

\* a with_columns call that returns a frame unlike the receiver
C10_Witness ==
    /\ Returned("with_columns", "DataFrame")
    /\ last.out.val.dataframe # last.self.dataframe
    /\ last.after = last.self
    /\ last.self.api_version = "v2"

====
